---- MODULE Spec2Model ----
(***************************************************************************)
(* Library management application: users, books and the UserBooks join     *)
(* table that records who holds which book (helpers/booksHelper.js,        *)
(* helpers/usersHelper.js, routes/users.js, routes/books.js, the models).  *)
(*                                                                         *)
(* Tables are modelled as the database keeps them: Users and Books as      *)
(* sequences indexed by their auto-increment id, UserBooks as a set of     *)
(* rows (SQL gives no row order without ORDER BY) under its composite      *)
(* primary key (userId, bookId).                                           *)
(***************************************************************************)
EXTENDS Integers, Sequences, FiniteSets, Bags, TLC

VARIABLES users, books, pending, loans, resp, hist, inflight

vars == <<users, books, pending, loans, resp, hist, inflight>>

----------------------------------------------------------------------------
(* Bounds of the model *)

MaxUsers == 2
MaxBooks == 2
MaxLoans == 2

MaxRaters == 4
MaxShelf == 2
MaxCalls == 5

MaxProcs == 2
UserNames == {"Alice"}
BookNames == {"Dune"}
Scores == {-4, 4}

ShelfNames == {"Dune", "Emma"}
UserIds == 1..MaxUsers
BookIds == 1..MaxBooks

----------------------------------------------------------------------------
(* Values *)

Null == [type |-> "null"]
Undefined == [type |-> "undefined"]
PendingPromise == [type |-> "Promise"]

----------------------------------------------------------------------------
(* Sequelize model operations on the tables *)

\* Model.findByPk(id): the row with that primary key, or null
findByPk(table, id) ==
    IF id \in 1..Len(table) THEN table[id] ELSE Null

\* Model.create({ name }): auto-increment id, next free integer
createRecord(table, name) ==
    [id |-> Len(table) + 1, name |-> name]

\* Model.findOne({ where }): any one matching row, null when there is none
findOne(rows) ==
    IF rows = {} THEN {Null} ELSE rows

\* where { bookId, isCurrentlyBorrowed: true }
existingEntryWhere(row, bookId) ==
    row.bookId = bookId /\ row.isCurrentlyBorrowed

\* faulty variant: the lookup of the pair's closed row asks for an open one
isPreviouslyBorrowedWhereOpen(row, userId, bookId) ==
    row.bookId = bookId /\ row.userId = userId /\ row.isCurrentlyBorrowed

\* where { bookId, userId, isCurrentlyBorrowed: false }
isPreviouslyBorrowedWhere(row, userId, bookId) ==
    row.bookId = bookId /\ row.userId = userId /\ ~row.isCurrentlyBorrowed

\* faulty variant: the open-loan lookup of returnBook forgets the user
userBookEntryWhereAnyUser(row, userId, bookId) ==
    row.bookId = bookId /\ row.isCurrentlyBorrowed

\* where { userId, bookId, isCurrentlyBorrowed: true }
userBookEntryWhere(row, userId, bookId) ==
    row.userId = userId /\ row.bookId = bookId /\ row.isCurrentlyBorrowed

\* faulty variant: the reopening update forgets the user and rewrites every row of the book
reopenWhereAnyUser(row, userId, bookId) ==
    row.bookId = bookId

\* UserBooks.update(..., { where: { bookId, userId } })
reopenWhere(row, userId, bookId) ==
    row.bookId = bookId /\ row.userId = userId

\* faulty variant: the reopening update forgets to reset the score
reopenValuesKeepScore(row) ==
    [row EXCEPT !.isCurrentlyBorrowed = TRUE]

\* values of the reopening update: { isCurrentlyBorrowed: true, userScore: 0 }
reopenValues(row) ==
    [row EXCEPT !.isCurrentlyBorrowed = TRUE, !.userScore = 0]

\* faulty variant: the returning update stores the score and leaves the loan open
returnValuesStillOpen(row, score) ==
    [row EXCEPT !.userScore = score]

\* values of the returning update: { isCurrentlyBorrowed: false, userScore: score }
returnValues(row, score) ==
    [row EXCEPT !.isCurrentlyBorrowed = FALSE, !.userScore = score]

\* faulty variant: the new row is inserted closed
newUserBooksClosed(userId, bookId) ==
    [userId |-> userId, bookId |-> bookId, userScore |-> 0, isCurrentlyBorrowed |-> FALSE]

\* UserBooks.create({ userId, bookId, isCurrentlyBorrowed: true }); userScore defaults to 0
newUserBooks(userId, bookId) ==
    [userId |-> userId, bookId |-> bookId, userScore |-> 0, isCurrentlyBorrowed |-> TRUE]

\* composite primary key (userId, bookId) of UserBooks: an insert of a taken key is rejected
primaryKeyTaken(ls, userId, bookId) ==
    \E row \in ls : row.userId = userId /\ row.bookId = bookId

\* faulty variant: the returning update addresses the rows by the book alone
updateByPkAnyUser(ls, entry, values) ==
    {IF row.bookId = entry.bookId THEN values ELSE row : row \in ls}

\* instance.update(values): the update statement addresses the row by its primary key
updateByPk(ls, entry, values) ==
    {IF row.userId = entry.userId /\ row.bookId = entry.bookId THEN values ELSE row : row \in ls}

\* Model.update(values, { where }): every matching row is rewritten
updateWhere(ls, userId, bookId) ==
    {IF reopenWhere(row, userId, bookId) THEN reopenValues(row) ELSE row : row \in ls}

----------------------------------------------------------------------------
(* helpers/booksHelper.js: borrowBook and returnBook *)

Result(success, message, status) ==
    [success |-> success, message |-> message, status |-> status]

\* faulty variant: && in place of ||
notFoundBoth(user, book) ==
    user = Null /\ book = Null

\* if (!user || !book)
notFound(user, book) ==
    user = Null \/ book = Null

\* the write of borrowBook: reopen the closed row of the pair, or insert a new one
borrowWrite(ls, userId, bookId, isPreviouslyBorrowed) ==
    IF isPreviouslyBorrowed # Null
    THEN [threw |-> FALSE, wrote |-> "update", loans |-> updateWhere(ls, userId, bookId)]
    ELSE IF primaryKeyTaken(ls, userId, bookId)
         THEN [threw |-> TRUE, wrote |-> "none", loans |-> ls]
         ELSE [threw |-> FALSE, wrote |-> "create",
               loans |-> ls \cup {newUserBooks(userId, bookId)}]

\* the message of the conflict answer
conflictMessage(existingEntry, userId) ==
    IF existingEntry.userId = userId
    THEN "Book is already borrowed by this user"
    ELSE "Book is already borrowed by someone else"

\* faulty variant: the write is done before the conflict check
borrowBookWritesFirst(us, bs, ls, userId, bookId, existingEntry, isPreviouslyBorrowed) ==
    IF notFound(findByPk(us, userId), findByPk(bs, bookId))
    THEN [threw |-> FALSE, wrote |-> "none", loans |-> ls,
          result |-> Result(FALSE, "User or Book not found", 404)]
    ELSE LET w == borrowWrite(ls, userId, bookId, isPreviouslyBorrowed) IN
         IF existingEntry # Null
         THEN [threw |-> FALSE, wrote |-> w.wrote, loans |-> w.loans,
               result |-> Result(FALSE, conflictMessage(existingEntry, userId), 400)]
         ELSE [threw |-> w.threw, wrote |-> w.wrote, loans |-> w.loans,
               result |-> Result(TRUE, "Book borrowed successfully", 200)]

\* borrowBook, run to completion; existingEntry and isPreviouslyBorrowed are
\* the rows its two findOne calls returned
borrowBook(us, bs, ls, userId, bookId, existingEntry, isPreviouslyBorrowed) ==
    IF notFound(findByPk(us, userId), findByPk(bs, bookId))
    THEN [threw |-> FALSE, wrote |-> "none", loans |-> ls,
          result |-> Result(FALSE, "User or Book not found", 404)]
    ELSE IF existingEntry # Null
    THEN [threw |-> FALSE, wrote |-> "none", loans |-> ls,
          result |-> Result(FALSE, conflictMessage(existingEntry, userId), 400)]
    ELSE LET w == borrowWrite(ls, userId, bookId, isPreviouslyBorrowed) IN
         [threw |-> w.threw, wrote |-> w.wrote, loans |-> w.loans,
          result |-> Result(TRUE, "Book borrowed successfully", 200)]

\* returnBook, run to completion; userBookEntry is the row its findOne returned
returnBook(us, bs, ls, userId, bookId, score, userBookEntry) ==
    IF notFound(findByPk(us, userId), findByPk(bs, bookId))
    THEN [wrote |-> "none", loans |-> ls,
          result |-> Result(FALSE, "User or Book not found", 404)]
    ELSE IF userBookEntry = Null
    THEN [wrote |-> "none", loans |-> ls,
          result |-> Result(FALSE, "This book is not currently borrowed by the user", 400)]
    ELSE [wrote |-> "update",
          loans |-> updateByPk(ls, userBookEntry, returnValues(userBookEntry, score)),
          result |-> Result(TRUE, "Book returned successfully", 200)]

\* what a handler did: the request, the status and JSON body it answered, and
\* the statement it wrote to UserBooks ("create", "update" or "none")
Response(req, status, body, wrote) ==
    [req |-> req, status |-> status, body |-> body, wrote |-> wrote]

\* the route's answer to a helper result: { message } on success, { error } otherwise,
\* and the catch block's 500 when the helper threw
lendingResponse(req, threw, result, wrote, failure) ==
    IF threw
    THEN Response(req, 500, [error |-> failure], wrote)
    ELSE IF result.success
    THEN Response(req, result.status, [message |-> result.message], wrote)
    ELSE Response(req, result.status, [error |-> result.message], wrote)

NoResponse == Response([op |-> "none"], 0, Undefined, "none")

----------------------------------------------------------------------------
(* helpers/booksHelper.js: getBookWithScore *)

Number(n) == [type |-> "number", value |-> n]

\* the string (x).toFixed(2) of x = num / den, den > 0: its sign and its digits
\* as a count of hundredths, the nearest one, the larger when two are as near
toFixed2(num, den) ==
    LET abs == IF num < 0 THEN -num ELSE num IN
    [type |-> "string", negative |-> num < 0,
     hundredths |-> (200 * abs + den) \div (2 * den)]

\* faulty variant: only the loans that were returned are counted
bookUsersReturned(ls, bookId) ==
    {row \in ls : row.bookId = bookId /\ ~row.isCurrentlyBorrowed}

\* book.Users: the users joined to the book through UserBooks, one per row of the book
bookUsers(ls, bookId) ==
    {row \in ls : row.bookId = bookId}

\* the forEach that adds up user.UserBooks.userScore
RECURSIVE totalScore(_)
totalScore(rows) ==
    IF rows = {}
    THEN 0
    ELSE LET row == CHOOSE r \in rows : TRUE IN
         row.userScore + totalScore(rows \ {row})

averageScore(total, length) ==
    IF total # 0 THEN toFixed2(total, length) ELSE Number(0)

getBookWithScore(bs, ls, bookId) ==
    LET book == findByPk(bs, bookId)
        Users == bookUsers(ls, bookId)
        average == averageScore(totalScore(Users), Cardinality(Users))
    IN  IF book = Null
        THEN Null
        ELSE IF average # Number(0)
        THEN [id |-> book.id, name |-> book.name, score |-> average]
        ELSE [id |-> book.id, name |-> book.name, score |-> Number(-1)]

----------------------------------------------------------------------------
(* helpers/usersHelper.js: getUserById *)

\* user.Books: the books joined to the user through UserBooks, one per row of the user
userBooks(ls, userId) ==
    {row \in ls : row.userId = userId}

\* the orders in which a query without ORDER BY may hand back a set of rows
Orderings(rows) ==
    {order \in [1..Cardinality(rows) -> rows] :
        \A i, j \in 1..Cardinality(rows) : order[i] = order[j] => i = j}

\* faulty variant: the two branches of the forEach swapped
isPastRow(row) ==
    ~row.isCurrentlyBorrowed

\* if (isCurrentlyBorrowed)
isPresentRow(row) ==
    row.isCurrentlyBorrowed

isNotPresentRow(row) ==
    ~isPresentRow(row)

\* presentBooks.push({ name: book.name })
presentBooks(bs, order) ==
    LET rows == SelectSeq(order, isPresentRow) IN
    [i \in 1..Len(rows) |-> [name |-> bs[rows[i].bookId].name]]

\* pastBooks.push({ name: book.name, userScore })
pastBooks(bs, order) ==
    LET rows == SelectSeq(order, isNotPresentRow) IN
    [i \in 1..Len(rows) |-> [name |-> bs[rows[i].bookId].name,
                             userScore |-> rows[i].userScore]]

\* getUserById; order is the order in which the join handed back user.Books
getUserById(us, bs, userId, order) ==
    LET user == findByPk(us, userId) IN
    IF user = Null
    THEN Null
    ELSE [id |-> user.id, name |-> user.name,
          books |-> [past |-> pastBooks(bs, order), present |-> presentBooks(bs, order)]]

----------------------------------------------------------------------------
(* Initial state: the tables initDB.js leaves behind, no request served *)

Init ==
    /\ users = <<>>
    /\ books = <<>>
    /\ pending = <<>>
    /\ loans = {}
    /\ resp = NoResponse
    /\ hist = <<>>
    /\ inflight = <<>>

----------------------------------------------------------------------------
(* Requests served one at a time, each handler run to completion *)

createUserReq(name) == [op |-> "createUser", name |-> name]

createBookReq(name) == [op |-> "createBook", name |-> name]

borrowReq(userId, bookId) ==
    [op |-> "borrow", userId |-> userId, bookId |-> bookId]

returnReq(userId, bookId, score) ==
    [op |-> "return", userId |-> userId, bookId |-> bookId, score |-> score]

\* createUser of usersHelper.js: the inner async function awaits User.create and
\* returns nothing, so the promise handed back resolves to undefined
createUser(us, userName) ==
    [users |-> Append(us, createRecord(us, userName)), user |-> Undefined]

\* the handler of POST /users, run to completion
CreateUserCall(name) ==
    /\ Len(users) < MaxUsers \/ name = ""
    /\ IF name = ""
       THEN /\ resp' = Response(createUserReq(name), 400,
                                [errors |-> <<"Name is required">>], "none")
            /\ UNCHANGED users
       ELSE LET c == createUser(users, name) IN
            /\ users' = c.users
            /\ resp' = Response(createUserReq(name), 201, c.user, "none")
    /\ UNCHANGED <<books, pending, loans, inflight>>

\* the handler of POST /books: the create is started, not awaited, and the
\* promise itself is sent
CreateBookCall(name) ==
    /\ Len(books) + Len(pending) < MaxBooks \/ name = ""
    /\ IF name = ""
       THEN /\ resp' = Response(createBookReq(name), 400,
                                [errors |-> <<"Invalid value">>], "none")
            /\ UNCHANGED pending
       ELSE /\ pending' = Append(pending, name)
            /\ resp' = Response(createBookReq(name), 201, PendingPromise, "none")
    /\ UNCHANGED <<users, books, loans, inflight>>

\* the continuation of POST /books: Book.sync().then(Book.create)
BookCreateLands ==
    /\ pending # <<>>
    /\ books' = Append(books, createRecord(books, Head(pending)))
    /\ pending' = Tail(pending)
    /\ UNCHANGED <<users, loans, resp, hist, inflight>>

\* the handler of POST /users/:userId/borrow/:bookId, run to completion
BorrowBookCall(userId, bookId) ==
    \E existingEntry \in findOne({row \in loans : existingEntryWhere(row, bookId)}),
       isPreviouslyBorrowed \in
           findOne({row \in loans : isPreviouslyBorrowedWhere(row, userId, bookId)}) :
        LET r == borrowBook(users, books, loans, userId, bookId,
                            existingEntry, isPreviouslyBorrowed) IN
        /\ Cardinality(r.loans) <= MaxLoans
        /\ loans' = r.loans
        /\ resp' = lendingResponse(borrowReq(userId, bookId), r.threw, r.result, r.wrote,
                                   "An error occurred while borrowing the book")
        /\ UNCHANGED <<users, books, pending, inflight>>

\* the handler of POST /users/:userId/return/:bookId, run to completion
ReturnBookCall(userId, bookId, score) ==
    \E userBookEntry \in
           findOne({row \in loans : userBookEntryWhere(row, userId, bookId)}) :
        LET r == returnBook(users, books, loans, userId, bookId, score, userBookEntry) IN
        /\ loans' = r.loans
        /\ resp' = lendingResponse(returnReq(userId, bookId, score), FALSE, r.result,
                                   r.wrote, "An error occurred while returning the book")
        /\ UNCHANGED <<users, books, pending, inflight>>

CreateUser(name) ==
    CreateUserCall(name) /\ UNCHANGED hist

CreateBook(name) ==
    CreateBookCall(name) /\ UNCHANGED hist

BorrowBook(userId, bookId) ==
    BorrowBookCall(userId, bookId) /\ UNCHANGED hist

ReturnBook(userId, bookId, score) ==
    ReturnBookCall(userId, bookId, score) /\ UNCHANGED hist

Next ==
    \/ \E name \in UserNames \cup {""} : CreateUser(name)
    \/ \E name \in BookNames \cup {""} : CreateBook(name)
    \/ BookCreateLands
    \/ \E userId \in UserIds, bookId \in BookIds : BorrowBook(userId, bookId)
    \/ \E userId \in UserIds, bookId \in BookIds, score \in Scores :
           ReturnBook(userId, bookId, score)

Spec == Init /\ [][Next]_vars

----------------------------------------------------------------------------
(* The read requests *)

getBookReq(bookId) == [op |-> "getBook", bookId |-> bookId]

getUserReq(userId) == [op |-> "getUser", userId |-> userId]

\* the handler of GET /books/:id
GetBookCall(bookId) ==
    LET book == getBookWithScore(books, loans, bookId) IN
    /\ resp' = IF book = Null
               THEN Response(getBookReq(bookId), 404, [error |-> "Book not found"], "none")
               ELSE Response(getBookReq(bookId), 200, book, "none")
    /\ UNCHANGED <<users, books, pending, loans, inflight>>

\* the handler of GET /users/:userId
GetUserCall(userId) ==
    \E order \in Orderings(userBooks(loans, userId)) :
        LET user == getUserById(users, books, userId, order) IN
        /\ resp' = IF user = Null
                   THEN Response(getUserReq(userId), 404, [error |-> "User not found"], "none")
                   ELSE Response(getUserReq(userId), 200, user, "none")
        /\ UNCHANGED <<users, books, pending, loans, inflight>>

\* the rows a (user, book) pair can have left in UserBooks
NoRow == [kind |-> "none"]

RowChoices(scores) ==
    {NoRow, [kind |-> "open"]} \cup {[kind |-> "closed", score |-> s] : s \in scores}

rowOf(userId, bookId, choice) ==
    [userId |-> userId, bookId |-> bookId,
     userScore |-> IF choice.kind = "closed" THEN choice.score ELSE 0,
     isCurrentlyBorrowed |-> choice.kind = "open"]

\* the tables that sequential lending can have left for the users uids and the
\* books bids: one row per pair at most, one open row per book at most
LoanTables(uids, bids, scores) ==
    {{rowOf(pair[1], pair[2], f[pair]) : pair \in {q \in uids \X bids : f[q] # NoRow}} :
        f \in {g \in [uids \X bids -> RowChoices(scores)] :
                  \A b \in bids :
                      Cardinality({u \in uids : g[<<u, b>>].kind = "open"}) <= 1}}

\* GET /books/:id over the tables of one book and its raters
ScoreInit ==
    /\ users = [i \in 1..MaxRaters |-> [id |-> i, name |-> "Alice"]]
    /\ books = <<[id |-> 1, name |-> "Dune"]>>
    /\ pending = <<>>
    /\ loans \in LoanTables(1..MaxRaters, {1}, Scores \cup {0})
    /\ resp = NoResponse
    /\ hist = <<>>
    /\ inflight = <<>>

GetBook(bookId) ==
    GetBookCall(bookId) /\ UNCHANGED hist

ScoreNext ==
    \E bookId \in 1..(Len(books) + 1) : GetBook(bookId)

SpecScore == ScoreInit /\ [][ScoreNext]_vars

\* GET /users/:userId over the tables of two users and a shelf of books
UserInit ==
    /\ users = <<[id |-> 1, name |-> "Alice"], [id |-> 2, name |-> "Bob"]>>
    /\ books \in {[i \in 1..MaxShelf |-> [id |-> i, name |-> names[i]]] :
                     names \in [1..MaxShelf -> ShelfNames]}
    /\ pending = <<>>
    /\ loans \in LoanTables({1, 2}, 1..MaxShelf, Scores)
    /\ resp = NoResponse
    /\ hist = <<>>
    /\ inflight = <<>>

GetUser(userId) ==
    GetUserCall(userId) /\ UNCHANGED hist

UserNext ==
    \E userId \in 1..(Len(users) + 1) : GetUser(userId)

SpecUser == UserInit /\ [][UserNext]_vars

\* One user and one book, no loan yet, and a log of the calls served
ScenarioInit ==
    /\ users = <<[id |-> 1, name |-> "Alice"]>>
    /\ books = <<[id |-> 1, name |-> "Dune"]>>
    /\ pending = <<>>
    /\ loans = {}
    /\ resp = NoResponse
    /\ hist = <<>>
    /\ inflight = <<>>

Logged == Len(hist) < MaxCalls /\ hist' = Append(hist, resp')

ScenarioBorrow(userId, bookId) ==
    BorrowBookCall(userId, bookId) /\ Logged

ScenarioReturn(userId, bookId, score) ==
    ReturnBookCall(userId, bookId, score) /\ Logged

ScenarioGetBook(bookId) ==
    GetBookCall(bookId) /\ Logged

ScenarioNext ==
    \/ \E userId \in DOMAIN users, bookId \in DOMAIN books : ScenarioBorrow(userId, bookId)
    \/ \E userId \in DOMAIN users, bookId \in DOMAIN books, score \in Scores :
           ScenarioReturn(userId, bookId, score)
    \/ \E bookId \in DOMAIN books : ScenarioGetBook(bookId)

SpecScenario == ScenarioInit /\ [][ScenarioNext]_vars

----------------------------------------------------------------------------
(* Borrow requests in flight together: a handler gives way to the others at  *)
(* each await of borrowBook, and runs alone between two awaits.              *)

Procs == 1..MaxProcs

Idle == [pc |-> "idle"]

\* two users and one book, with the rows that earlier lending left behind
ConcInit ==
    /\ users = <<[id |-> 1, name |-> "Alice"], [id |-> 2, name |-> "Bob"]>>
    /\ books = <<[id |-> 1, name |-> "Dune"]>>
    /\ pending = <<>>
    /\ loans \in LoanTables({1, 2}, {1}, Scores)
    /\ resp = NoResponse
    /\ hist = <<>>
    /\ inflight = [p \in Procs |-> Idle]

Goto(p, call) ==
    /\ inflight' = [inflight EXCEPT ![p] = call]
    /\ UNCHANGED <<users, books, pending, loans, resp, hist>>

\* the route calls borrowBook, which starts User.findByPk
Receive(p, userId, bookId) ==
    /\ inflight[p].pc = "idle"
    /\ Goto(p, [pc |-> "findUser", userId |-> userId, bookId |-> bookId,
                user |-> Null, book |-> Null, existingEntry |-> Null,
                isPreviouslyBorrowed |-> Null, threw |-> FALSE, wrote |-> "none",
                result |-> Result(TRUE, "", 201)])

\* const user = await User.findByPk(userId)
FindUser(p) ==
    LET call == inflight[p] IN
    /\ call.pc = "findUser"
    /\ Goto(p, [call EXCEPT !.pc = "findBook", !.user = findByPk(users, call.userId)])

\* const book = await Book.findByPk(bookId); if (!user || !book) return 404
FindBook(p) ==
    LET call == inflight[p]
        book == findByPk(books, call.bookId)
    IN  /\ call.pc = "findBook"
        /\ IF notFound(call.user, book)
           THEN Goto(p, [call EXCEPT !.pc = "respond", !.book = book,
                             !.result = Result(FALSE, "User or Book not found", 404)])
           ELSE Goto(p, [call EXCEPT !.pc = "findExistingEntry", !.book = book])

\* const existingEntry = await UserBooks.findOne(...); if (existingEntry) return 400
FindExistingEntry(p) ==
    LET call == inflight[p] IN
    /\ call.pc = "findExistingEntry"
    /\ \E existingEntry \in
           findOne({row \in loans : existingEntryWhere(row, call.bookId)}) :
           IF existingEntry # Null
           THEN Goto(p, [call EXCEPT !.pc = "respond", !.existingEntry = existingEntry,
                             !.result = Result(FALSE,
                                               conflictMessage(existingEntry, call.userId),
                                               400)])
           ELSE Goto(p, [call EXCEPT !.pc = "sync"])

\* await UserBooks.sync(): the table exists, nothing changes
Sync(p) ==
    LET call == inflight[p] IN
    /\ call.pc = "sync"
    /\ Goto(p, [call EXCEPT !.pc = "findPreviouslyBorrowed"])

\* const isPreviouslyBorrowed = await UserBooks.findOne(...)
FindPreviouslyBorrowed(p) ==
    LET call == inflight[p] IN
    /\ call.pc = "findPreviouslyBorrowed"
    /\ \E isPreviouslyBorrowed \in
           findOne({row \in loans :
                       isPreviouslyBorrowedWhere(row, call.userId, call.bookId)}) :
           Goto(p, [call EXCEPT !.pc = "write",
                                !.isPreviouslyBorrowed = isPreviouslyBorrowed])

\* await UserBooks.update(...) or await UserBooks.create(...), then the 200 result
Write(p) ==
    LET call == inflight[p]
        w == borrowWrite(loans, call.userId, call.bookId, call.isPreviouslyBorrowed)
    IN  /\ call.pc = "write"
        /\ loans' = w.loans
        /\ inflight' = [inflight EXCEPT ![p] =
               [call EXCEPT !.pc = "respond", !.threw = w.threw, !.wrote = w.wrote,
                            !.result = Result(TRUE, "Book borrowed successfully", 200)]]
        /\ UNCHANGED <<users, books, pending, resp, hist>>

\* the route answers with the result, or with 500 from its catch block
Respond(p) ==
    LET call == inflight[p] IN
    /\ call.pc = "respond"
    /\ resp' = lendingResponse(borrowReq(call.userId, call.bookId), call.threw,
                               call.result, call.wrote,
                               "An error occurred while borrowing the book")
    /\ inflight' = [inflight EXCEPT ![p] = [pc |-> "done", response |-> resp']]
    /\ UNCHANGED <<users, books, pending, loans, hist>>

ConcNext ==
    \E p \in Procs :
        \/ \E userId \in 1..Len(users), bookId \in 1..(Len(books) + 1) :
               Receive(p, userId, bookId)
        \/ FindUser(p)
        \/ FindBook(p)
        \/ FindExistingEntry(p)
        \/ Sync(p)
        \/ FindPreviouslyBorrowed(p)
        \/ Write(p)
        \/ Respond(p)

SpecConc == ConcInit /\ [][ConcNext]_vars

----------------------------------------------------------------------------
(* The list requests *)

listUsersReq == [op |-> "listUsers"]

listBooksReq == [op |-> "listBooks"]

\* getAllUsers of usersHelper.js: User.findAll(), every row as it is stored
getAllUsers(us) == us

\* getAllBooks of booksHelper.js: findAll of id and name, mapped to { id, name }
getAllBooks(bs) ==
    [i \in 1..Len(bs) |-> [id |-> bs[i].id, name |-> bs[i].name]]

\* the handler of GET /users; the JSON array is kept in a record field
ListUsersCall ==
    /\ resp' = Response(listUsersReq, 200, [rows |-> getAllUsers(users)], "none")
    /\ UNCHANGED <<users, books, pending, loans, inflight>>

\* the handler of GET /books
ListBooksCall ==
    /\ resp' = Response(listBooksReq, 200, [rows |-> getAllBooks(books)], "none")
    /\ UNCHANGED <<users, books, pending, loans, inflight>>

----------------------------------------------------------------------------
(* Requests served while a storage call can reject.  hist holds one entry,  *)
(* the record of the request served last: whether a storage call of it      *)
(* rejected, how many responses it was sent and the status of the response. *)

Served(req, failed, responses, status) ==
    hist' = <<[req |-> req, failed |-> failed, responses |-> responses,
               status |-> status]>>

\* a handler whose storage calls all resolved
Resolved(req) ==
    Served(req, FALSE, 1, resp'.status)

\* a rejection inside try: the catch block sends 500 { error }; every handler
\* has its one write as its last storage call, so nothing was written
Caught(req, failure) ==
    /\ resp' = Response(req, 500, [error |-> failure], "none")
    /\ UNCHANGED <<users, books, pending, loans, inflight>>
    /\ Served(req, TRUE, 1, 500)

\* what follows a rejection in an async handler without try/catch: Express 4
\* never hears of it and the request stays without a response, Express 5
\* passes it to the default error handler, which sends a 500 page
UncaughtOutcomes == {"unanswered", "defaultHandler"}

DefaultErrorPage == [html |-> "Internal Server Error"]

Uncaught(req) ==
    \E outcome \in UncaughtOutcomes :
        /\ resp' = IF outcome = "defaultHandler"
                   THEN Response(req, 500, DefaultErrorPage, "none")
                   ELSE resp
        /\ UNCHANGED <<users, books, pending, loans, inflight>>
        /\ IF outcome = "defaultHandler"
           THEN Served(req, TRUE, 1, 500)
           ELSE Served(req, TRUE, 0, 0)

\* GET /users: no try/catch around await getAllUsers(User)
ServeListUsers ==
    \/ ListUsersCall /\ Resolved(listUsersReq)
    \/ Uncaught(listUsersReq)

\* POST /users: the create is inside try; validation comes before any storage call
ServeCreateUser(name) ==
    \/ CreateUserCall(name) /\ Resolved(createUserReq(name))
    \/ /\ name # ""
       /\ Caught(createUserReq(name), "An error occurred while creating the user")

\* GET /users/:userId: inside try
ServeGetUser(userId) ==
    \/ GetUserCall(userId) /\ Resolved(getUserReq(userId))
    \/ Caught(getUserReq(userId), "An error occurred while fetching the user")

\* POST /users/:userId/borrow/:bookId: inside try; the rejected write of a
\* taken primary key is already part of the handler
ServeBorrow(userId, bookId) ==
    \/ /\ BorrowBookCall(userId, bookId)
       /\ Served(borrowReq(userId, bookId), resp'.status = 500, 1, resp'.status)
    \/ Caught(borrowReq(userId, bookId), "An error occurred while borrowing the book")

\* POST /users/:userId/return/:bookId: inside try
ServeReturn(userId, bookId, score) ==
    \/ ReturnBookCall(userId, bookId, score) /\ Resolved(returnReq(userId, bookId, score))
    \/ Caught(returnReq(userId, bookId, score),
              "An error occurred while returning the book")

\* GET /books: inside try
ServeListBooks ==
    \/ ListBooksCall /\ Resolved(listBooksReq)
    \/ Caught(listBooksReq, "An error occurred while fetching books")

\* GET /books/:id: no try/catch around await getBookWithScore
ServeGetBook(bookId) ==
    \/ GetBookCall(bookId) /\ Resolved(getBookReq(bookId))
    \/ Uncaught(getBookReq(bookId))

\* POST /books: the handler makes no storage call of its own before it answers
ServeCreateBook(name) ==
    CreateBookCall(name) /\ Resolved(createBookReq(name))

\* the continuation of POST /books resolves
ServeBookCreateLands ==
    /\ pending # <<>>
    /\ books' = Append(books, createRecord(books, Head(pending)))
    /\ pending' = Tail(pending)
    /\ UNCHANGED <<users, loans, resp, inflight>>
    /\ Served(createBookReq(Head(pending)), FALSE, 1, 201)

\* the continuation of POST /books rejects (Book.sync or Book.create): nothing
\* is stored and nobody handles the rejection; the request was answered 201
BookCreateFails ==
    /\ pending # <<>>
    /\ pending' = Tail(pending)
    /\ UNCHANGED <<users, books, loans, resp, inflight>>
    /\ Served(createBookReq(Head(pending)), TRUE, 1, 201)

FailNext ==
    \/ ServeListUsers
    \/ \E name \in UserNames \cup {""} : ServeCreateUser(name)
    \/ \E userId \in UserIds : ServeGetUser(userId)
    \/ \E userId \in UserIds, bookId \in BookIds : ServeBorrow(userId, bookId)
    \/ \E userId \in UserIds, bookId \in BookIds, score \in Scores :
           ServeReturn(userId, bookId, score)
    \/ ServeListBooks
    \/ \E bookId \in BookIds : ServeGetBook(bookId)
    \/ \E name \in BookNames \cup {""} : ServeCreateBook(name)
    \/ ServeBookCreateLands
    \/ BookCreateFails

SpecFail == Init /\ [][FailNext]_vars

----------------------------------------------------------------------------
(* POST /books and GET /books, each response logged in hist *)

BooksCreate(name) ==
    CreateBookCall(name) /\ Logged

BooksList ==
    ListBooksCall /\ Logged

BooksNext ==
    \/ \E name \in BookNames \cup {""} : BooksCreate(name)
    \/ BookCreateLands
    \/ BooksList

SpecBooks == Init /\ [][BooksNext]_vars

----------------------------------------------------------------------------
(* Properties of sequential lending, checked under Spec *)

OpenRowsOf(ls, bookId) ==
    {row \in ls : row.bookId = bookId /\ row.isCurrentlyBorrowed = TRUE}

PairRows(ls, userId, bookId) ==
    {row \in ls : row.userId = userId /\ row.bookId = bookId}

OpenRow(userId, bookId) ==
    [userId |-> userId, bookId |-> bookId, userScore |-> 0, isCurrentlyBorrowed |-> TRUE]

\* C1: in every state reached by borrow and return calls served one after the
\* other, each book has at most one UserBooks row with isCurrentlyBorrowed = true.
C1_AtMostOneOpenLoanPerBook ==
    \A bookId \in BookIds : Cardinality(OpenRowsOf(loans, bookId)) <= 1

\* a second user has just been refused a book that another user holds
C1_Witness ==
    /\ resp.req.op = "borrow"
    /\ resp.status = 400
    /\ \E row \in OpenRowsOf(loans, resp.req.bookId) : row.userId # resp.req.userId
    /\ \E row \in loans : row.bookId = resp.req.bookId /\ ~row.isCurrentlyBorrowed

\* the step just taken served the borrow request that resp' answers
BorrowServed ==
    resp'.req.op = "borrow" /\ BorrowBook(resp'.req.userId, resp'.req.bookId)

\* the step just taken served the return request that resp' answers
ReturnServed ==
    /\ resp'.req.op = "return"
    /\ ReturnBook(resp'.req.userId, resp'.req.bookId, resp'.req.score)

\* C2: a borrow of an existing book by an existing user answers 200 'Book
\* borrowed successfully' when the book has no open loan and leaves the book
\* open for that user; while the book is open every borrow of it, by the
\* holder or anyone else, answers 400 and leaves it open; the book stops being
\* open only by a successful return, after which it has no open loan.
C2_BorrowConflictsUntilReturned ==
    [][/\ (/\ BorrowServed
           /\ resp'.req.userId \in DOMAIN users
           /\ resp'.req.bookId \in DOMAIN books)
          => IF OpenRowsOf(loans, resp'.req.bookId) = {}
             THEN /\ resp'.status = 200
                  /\ resp'.body = [message |-> "Book borrowed successfully"]
                  /\ OpenRowsOf(loans', resp'.req.bookId)
                         = {OpenRow(resp'.req.userId, resp'.req.bookId)}
             ELSE /\ resp'.status = 400
                  /\ OpenRowsOf(loans', resp'.req.bookId)
                         = OpenRowsOf(loans, resp'.req.bookId)
       /\ (ReturnServed /\ resp'.status = 200)
          => OpenRowsOf(loans', resp'.req.bookId) = {}
       /\ \A bookId \in BookIds :
            (OpenRowsOf(loans, bookId) # {} /\ OpenRowsOf(loans', bookId) = {})
            => /\ ReturnServed
               /\ resp'.status = 200
               /\ resp'.req.bookId = bookId
               /\ \E row \in OpenRowsOf(loans, bookId) : row.userId = resp'.req.userId
      ]_vars

\* a book returned by one user has just been borrowed by another
C2_Witness ==
    /\ resp.req.op = "borrow"
    /\ resp.status = 200
    /\ OpenRow(resp.req.userId, resp.req.bookId) \in loans
    /\ \E row \in loans : /\ row.bookId = resp.req.bookId
                          /\ row.userId # resp.req.userId
                          /\ ~row.isCurrentlyBorrowed

\* C3: a return by an existing user of an existing book answers 400 'This
\* book is not currently borrowed by the user' whenever no row of exactly that
\* user and book is open: no row, a closed row, or the book open for someone else.
C3_ReturnNeedsOwnOpenLoan ==
    [][(/\ ReturnServed
        /\ resp'.req.userId \in DOMAIN users
        /\ resp'.req.bookId \in DOMAIN books
        /\ ~\E row \in PairRows(loans, resp'.req.userId, resp'.req.bookId) :
               row.isCurrentlyBorrowed)
       => /\ resp'.status = 400
          /\ resp'.body = [error |-> "This book is not currently borrowed by the user"]
      ]_vars

\* a user with a closed row for the book has just been refused its return
\* while another user holds the book
C3_Witness ==
    /\ resp.req.op = "return"
    /\ resp.status = 400
    /\ \E row \in OpenRowsOf(loans, resp.req.bookId) : row.userId # resp.req.userId
    /\ \E row \in PairRows(loans, resp.req.userId, resp.req.bookId) :
           ~row.isCurrentlyBorrowed

\* C4: a borrow by a user who has a closed row for the book, the book being
\* free, succeeds by rewriting that row to open with score 0, the table
\* otherwise unchanged; a row is inserted only when the pair has none; no
\* reachable state holds two rows of one (userId, bookId) pair.
C4_ReborrowReusesTheRow ==
    /\ [](\A userId \in UserIds, bookId \in BookIds :
              Cardinality(PairRows(loans, userId, bookId)) <= 1)
    /\ [][LET userId == resp'.req.userId
              bookId == resp'.req.bookId
          IN  /\ (/\ BorrowServed
                  /\ PairRows(loans, userId, bookId) # {}
                  /\ OpenRowsOf(loans, bookId) = {})
                 => /\ resp'.status = 200
                    /\ resp'.wrote = "update"
                    /\ loans' = (loans \ PairRows(loans, userId, bookId))
                                    \cup {OpenRow(userId, bookId)}
              /\ (BorrowServed /\ resp'.wrote = "create")
                 => /\ PairRows(loans, userId, bookId) = {}
                    /\ loans' = loans \cup {OpenRow(userId, bookId)}
         ]_vars

\* a user has just borrowed again a book they had returned, next to another row
C4_Witness ==
    /\ resp.req.op = "borrow"
    /\ resp.status = 200
    /\ resp.wrote = "update"
    /\ PairRows(loans, resp.req.userId, resp.req.bookId)
           = {OpenRow(resp.req.userId, resp.req.bookId)}
    /\ Cardinality(loans) = 2

UserOrBookNotFound(r) ==
    r.status = 404 /\ r.body = [error |-> "User or Book not found"]

\* C8: a borrow or a return that names a user or a book that does not exist
\* answers 404 'User or Book not found', whatever rows UserBooks holds: the
\* existence check precedes the conflict check and the open-loan lookup.
C8_MissingUserOrBookIsNotFound ==
    [][((BorrowServed \/ ReturnServed)
        /\ (resp'.req.userId \notin DOMAIN users \/ resp'.req.bookId \notin DOMAIN books))
       => UserOrBookNotFound(resp')
      ]_vars

\* a user that does not exist has just asked for a book that someone holds
C8_Witness ==
    /\ resp.req.op = "borrow"
    /\ UserOrBookNotFound(resp)
    /\ resp.req.userId \notin DOMAIN users
    /\ OpenRowsOf(loans, resp.req.bookId) # {}

\* C10: the 201 answer of POST /users and of POST /books carries the record
\* that was persisted, with its id.
C10_CreateAnswersThePersistedRecord ==
    /\ (resp.req.op = "createUser" /\ resp.status = 201)
       => /\ users # <<>>
          /\ resp.body = users[Len(users)]
          /\ resp.body.name = resp.req.name
    /\ (resp.req.op = "createBook" /\ resp.status = 201)
       => \E i \in DOMAIN books : resp.body = books[i] /\ books[i].name = resp.req.name

\* C11: every request is sent exactly one response, and a request one of whose
\* storage calls rejected is answered 500.
C11_EveryRequestAnsweredOnce ==
    \A i \in DOMAIN hist :
        /\ hist[i].responses = 1
        /\ hist[i].failed => hist[i].status = 500

\* C12: a return that finds the open row of its user and book answers 200
\* 'Book returned successfully', rewrites that row to closed with the score it
\* was given, whatever integer that is, and changes no other row, user or book.
C12_ReturnClosesOnlyItsRowWithTheScore ==
    [][LET userId == resp'.req.userId
           bookId == resp'.req.bookId
       IN  (ReturnServed /\ OpenRow(userId, bookId) \in loans)
           => /\ resp'.status = 200
              /\ resp'.body = [message |-> "Book returned successfully"]
              /\ loans' = (loans \ {OpenRow(userId, bookId)})
                              \cup {[userId |-> userId, bookId |-> bookId,
                                     userScore |-> resp'.req.score,
                                     isCurrentlyBorrowed |-> FALSE]}
              /\ users' = users
              /\ books' = books
      ]_vars

\* a return with a negative score has just closed its row, next to another
\* user's row of the same book
C12_Witness ==
    /\ resp.req.op = "return"
    /\ resp.status = 200
    /\ resp.req.score < 0
    /\ [userId |-> resp.req.userId, bookId |-> resp.req.bookId,
        userScore |-> resp.req.score, isCurrentlyBorrowed |-> FALSE] \in loans
    /\ \E row \in loans : row.bookId = resp.req.bookId /\ row.userId # resp.req.userId

\* C13: in every state reached by borrow and return calls served one after the
\* other, every open row has userScore 0.
C13_OpenLoansHaveScoreZero ==
    \A row \in loans : row.isCurrentlyBorrowed => row.userScore = 0

\* a row that was returned with a score has just been reopened
C13_Witness ==
    /\ resp.req.op = "borrow"
    /\ resp.status = 200
    /\ resp.wrote = "update"
    /\ OpenRow(resp.req.userId, resp.req.bookId) \in loans

\* the answer of a lending call that failed
C14_Failed(r) ==
    r.status = 404 \/ r.status = 400

\* C14: a borrow or a return that answers 404 or 400 leaves the users, the
\* books and every UserBooks row as they were.
C14_FailedCallsChangeNothing ==
    [][((BorrowServed \/ ReturnServed) /\ C14_Failed(resp'))
       => /\ loans' = loans
          /\ users' = users
          /\ books' = books
          /\ resp'.wrote = "none"
      ]_vars

\* a borrow has just been refused for a conflict, the user having a closed row
\* of the book that a write would have reopened
C14_Witness ==
    /\ resp.req.op = "borrow"
    /\ resp.status = 400
    /\ \E row \in PairRows(loans, resp.req.userId, resp.req.bookId) :
           ~row.isCurrentlyBorrowed
    /\ OpenRowsOf(loans, resp.req.bookId) # {}

----------------------------------------------------------------------------
(* Properties of the read requests *)

\* the sum of the scores of the book's rows, user by user
RECURSIVE C5_Sum(_, _)
C5_Sum(n, bookId) ==
    IF n = 0
    THEN 0
    ELSE C5_Sum(n - 1, bookId)
         + (IF \E row \in loans : row.userId = n /\ row.bookId = bookId
            THEN (CHOOSE row \in loans : row.userId = n /\ row.bookId = bookId).userScore
            ELSE 0)

C5_Abs(x) == IF x < 0 THEN -x ELSE x

C9_Count(seq, e) == Cardinality({i \in DOMAIN seq : seq[i] = e})

C9_Rows(userId, open) ==
    {row \in loans : row.userId = userId /\ row.isCurrentlyBorrowed = open}

\* C9: for an existing user GET /users/:userId answers the user's id and name
\* and two lists: present holds one { name } entry for each open row of the
\* user and nothing else, past holds one { name, userScore } entry for each
\* closed row of the user and nothing else; for a user that does not exist it
\* answers 404.
C9_LoansPartitionedIntoPastAndPresent ==
    resp.req.op = "getUser"
    => IF resp.req.userId \in DOMAIN users
       THEN LET userId == resp.req.userId
                past == resp.body.books.past
                present == resp.body.books.present
            IN  /\ resp.status = 200
                /\ resp.body.id = userId
                /\ resp.body.name = users[userId].name
                /\ Len(present) = Cardinality(C9_Rows(userId, TRUE))
                /\ Len(past) = Cardinality(C9_Rows(userId, FALSE))
                /\ \A row \in C9_Rows(userId, TRUE) :
                       LET e == [name |-> books[row.bookId].name] IN
                       C9_Count(present, e)
                           = Cardinality({r \in C9_Rows(userId, TRUE) :
                                             books[r.bookId].name = e.name})
                /\ \A row \in C9_Rows(userId, FALSE) :
                       LET e == [name |-> books[row.bookId].name,
                                 userScore |-> row.userScore] IN
                       C9_Count(past, e)
                           = Cardinality({r \in C9_Rows(userId, FALSE) :
                                             /\ books[r.bookId].name = e.name
                                             /\ r.userScore = e.userScore})
       ELSE resp.status = 404 /\ resp.body = [error |-> "User not found"]

\* a user with one book held and one returned has been answered, the other
\* user having rows of their own
C9_Witness ==
    /\ resp.req.op = "getUser"
    /\ resp.status = 200
    /\ Len(resp.body.books.present) = 1
    /\ Len(resp.body.books.past) = 1
    /\ \E row \in loans : row.userId # resp.req.userId

C6_Calls == [i \in DOMAIN hist |-> hist[i].req]

C6_Borrow == borrowReq(1, 1)

C6_Return == returnReq(1, 1, 4)

C6_Get == getBookReq(1)

C6_Score(n) == hist[n].body.score

\* C6 as stated: after borrow(1,1), return(1,1,4), borrow(1,1) the book's score is 2.00
C6_ScoreAfterReborrowIsTwo ==
    C6_Calls = <<C6_Borrow, C6_Return, C6_Borrow, C6_Get>>
    => C6_Score(4) = [type |-> "string", negative |-> FALSE, hundredths |-> 200]

\* C6 as amended: from one user, one book and no loans, borrow(1,1) then
\* return(1,1,4) makes GET /books/1 answer 4.00; the second borrow(1,1)
\* succeeds by rewriting the one row to open with score 0, and GET /books/1
\* then answers -1, the only row of the book having score 0.
C6_ScoreAfterReborrowIsMinusOne ==
    /\ C6_Calls = <<C6_Borrow, C6_Return, C6_Get>>
       => C6_Score(3) = [type |-> "string", negative |-> FALSE, hundredths |-> 400]
    /\ C6_Calls = <<C6_Borrow, C6_Return, C6_Borrow>>
       => /\ hist[3].status = 200
          /\ hist[3].wrote = "update"
          /\ loans = {OpenRow(1, 1)}
    /\ C6_Calls = <<C6_Borrow, C6_Return, C6_Borrow, C6_Get>>
       => C6_Score(4) = Number(-1)
    /\ C6_Calls = <<C6_Borrow, C6_Return, C6_Get, C6_Borrow, C6_Get>>
       => C6_Score(3) # C6_Score(5) /\ C6_Score(5) = Number(-1)

\* the whole scenario has been served, the score asked for after the return
\* and again after the second borrow
C6_Witness ==
    C6_Calls = <<C6_Borrow, C6_Return, C6_Get, C6_Borrow, C6_Get>>

----------------------------------------------------------------------------
(* Properties of borrow requests in flight together, checked under SpecConc *)

C7_Succeeded(p) ==
    inflight[p].pc = "done" /\ inflight[p].response.status = 200

\* C7: two borrow calls of one book by two different users can both pass the
\* conflict check before either write lands: whenever two such calls have both
\* answered 200, each has left its own row open and the book has two open rows.
C7_RacingBorrowsBothOpenTheBook ==
    \A p, q \in Procs :
        (/\ C7_Succeeded(p)
         /\ C7_Succeeded(q)
         /\ inflight[p].response.req.bookId = inflight[q].response.req.bookId
         /\ inflight[p].response.req.userId # inflight[q].response.req.userId)
        => LET bookId == inflight[p].response.req.bookId IN
           /\ OpenRow(inflight[p].response.req.userId, bookId) \in loans
           /\ OpenRow(inflight[q].response.req.userId, bookId) \in loans
           /\ Cardinality(OpenRowsOf(loans, bookId)) >= 2

\* two calls for book 1, by users 1 and 2, have both answered 200 'Book borrowed
\* successfully' and the table holds two open rows for the book
C7_Witness ==
    /\ \E p, q \in Procs :
        /\ C7_Succeeded(p)
        /\ C7_Succeeded(q)
        /\ inflight[p].response.req = borrowReq(1, 1)
        /\ inflight[q].response.req = borrowReq(2, 1)
        /\ inflight[p].response.body = [message |-> "Book borrowed successfully"]
        /\ inflight[q].response.body = [message |-> "Book borrowed successfully"]
    /\ loans = {OpenRow(1, 1), OpenRow(2, 1)}

----------------------------------------------------------------------------
(* Properties of POST /books and GET /books, checked under SpecBooks *)

\* the 201 answers of POST /books among the first n logged responses
RECURSIVE C15_Created(_)
C15_Created(n) ==
    IF n = 0 THEN 0
    ELSE C15_Created(n - 1)
         + (IF hist[n].req.op = "createBook" /\ hist[n].status = 201 THEN 1 ELSE 0)

\* C15: once POST /books has answered 201 its create is decided and stored:
\* no create is still outstanding, and a GET /books answered later lists one
\* book for every 201 answered before it.
C15_AnsweredBooksAreListed ==
    /\ pending = <<>>
    /\ \A j \in DOMAIN hist :
           hist[j].req.op = "listBooks"
               => Len(hist[j].body.rows) >= C15_Created(j - 1)

====
